---- MODULE Spec2Model ----
(***************************************************************************)
(* A model of facio, a client for the Source RCON protocol:                *)
(*   raw_packet.rs  the packet codec (RawPacket::new, serialize,           *)
(*                  deserialize) and the directional type classifier       *)
(*                  (PacketType),                                          *)
(*   ll.rs          send_packet / recv_packet,                             *)
(*   client.rs      the authentication handshake (check_auth, recv_auth,   *)
(*                  RconClient::open) and RconClient::exec.                *)
(*                                                                         *)
(* Strings and byte buffers are sequences of bytes (0..255); i32 values    *)
(* are integers in -2^31 .. 2^31-1.  Four specifications are given:        *)
(*   CodecSpec  applies the codec, the factories and the classifier to     *)
(*              inputs drawn from bounded sets;                            *)
(*   StreamSpec serializes several packets onto one stream and             *)
(*              deserializes them from it;                                 *)
(*   Spec       runs open and exec against a transport whose peer may      *)
(*              send any frame at any time;                                *)
(*   FifoSpec   runs open and exec against a peer that follows the         *)
(*              protocol, on a transport that takes every byte.            *)
(***************************************************************************)
EXTENDS Integers, Sequences, FiniteSets, TLC

VARIABLES
    \* ---- codec harness (CodecSpec) ----
    cstep,      \* position of the harness
    cin,        \* the inputs: id, raw type, body, and the writer's behaviour
    cpkt,       \* result of RawPacket::new on the inputs
    cser,       \* result of serialize: Ok / Err
    cwire,      \* the bytes the writer has received, then the reader's buffer
    cback,      \* result of deserialize on cwire
    cframe,     \* the bytes the reader held when deserialize was called
    cfac,       \* results of new and of the factory functions on the inputs
    ccls,       \* result of the classifiers on cin.type
    \* ---- one stream carrying several packets (StreamSpec) ----
    sin,        \* the packets to serialize, in order, and the writer's behaviour
    ssent,      \* how many of them have been serialized onto the stream
    swire,      \* the bytes on the stream that have not been read
    sout,       \* the results of the deserialize calls so far, in order
    \* ---- client (Spec) ----
    pc,             \* position of the calling thread inside open / exec
    args,           \* arguments of the call in progress
    control_packet, \* RconClient.control_packet (an Option: no session yet)
    response_str,   \* exec's local accumulator
    result,         \* return value of the last finished call
    auth,           \* return value of recv_auth in the last open
    rx,             \* bytes the peer has sent that the client has not read
    rx_closed,      \* the peer has closed its side (reads hit end of file)
    peer_sent,      \* number of frames the peer has sent
    calls,          \* number of exec calls started
    log,            \* the transport operations of the call in progress
    got,            \* the packets recv_packet returned in the call in progress
    peer            \* a compliant peer: its script, the requests taken, the packets owed

stvars == <<sin, ssent, swire, sout>>
cvars == <<cstep, cin, cpkt, cser, cwire, cback, cframe, cfac, ccls, stvars>>
svars == <<pc, args, control_packet, response_str, result, auth, rx, rx_closed,
           peer_sent, calls, log, got, peer>>
vars == <<cvars, svars>>

----------------------------------------------------------------------------
(* Bytes and text *)

Byte == 0..255

\* "He", "llo", "echo" as UTF-8
StrHe == <<72, 101>>
StrLlo == <<108, 108, 111>>
StrEcho == <<101, 99, 104, 111>>

\* a text of n bytes, all 'x'
Fill(n) == [i \in 1..n |-> 120]

\* The texts given to the program, by name: the state holds the name.
\* "max" is as long as a body may be (4086 bytes), "oversize" one byte longer.
Text(name) ==
    CASE name = "" -> <<>>
      [] name = "He" -> StrHe
      [] name = "llo" -> StrLlo
      [] name = "echo" -> StrEcho
      [] name = "secret" -> <<115, 101, 99, 114, 101, 116>>
      [] name = "nul" -> <<0>>
      [] name = "e-acute" -> <<195, 169>>
      [] name = "max" -> Fill(4086)
      [] name = "oversize" -> Fill(4087)

\* String::from_utf8 accepts exactly the well-formed UTF-8 byte sequences.
IsCont(b) == b >= 128 /\ b <= 191
LeadLen(b) ==
    IF b <= 127 THEN 1
    ELSE IF b >= 194 /\ b <= 223 THEN 2
    ELSE IF b >= 224 /\ b <= 239 THEN 3
    ELSE IF b >= 240 /\ b <= 244 THEN 4
    ELSE 0
SecondOk(lead, b) ==
    CASE lead = 224 -> b >= 160 /\ b <= 191
      [] lead = 237 -> b >= 128 /\ b <= 159
      [] lead = 240 -> b >= 144 /\ b <= 191
      [] lead = 244 -> b >= 128 /\ b <= 143
      [] OTHER -> IsCont(b)
from_utf8_ok(bytes) ==
    \A i \in 1..Len(bytes) :
        IF IsCont(bytes[i])
        THEN \E j \in 1..3 :
                /\ i - j >= 1
                /\ LeadLen(bytes[i - j]) > j
                /\ \A k \in 1..(j - 1) : IsCont(bytes[i - k])
        ELSE /\ LeadLen(bytes[i]) >= 1
             /\ i + LeadLen(bytes[i]) - 1 <= Len(bytes)
             /\ \A k \in 1..(LeadLen(bytes[i]) - 1) : IsCont(bytes[i + k])
             /\ LeadLen(bytes[i]) >= 2 => SecondOk(bytes[i], bytes[i + 1])

----------------------------------------------------------------------------
(* i32 on the wire: byteorder's write_i32 / read_i32 with LittleEndian.    *)
(* Two's complement, least significant byte first.  The value 2^32 is not  *)
(* formed: a negative x is written from x + 2^31 with the top bit set.     *)

I32Min == -2147483647 - 1
I32Max == 2147483647

\* write_i32 with the bytes in big-endian order
write_i32_be(x) ==
    LET y == IF x < 0 THEN (x + 2147483647) + 1 ELSE x
    IN  << (y \div 16777216) + (IF x < 0 THEN 128 ELSE 0),
           (y \div 65536) % 256,
           (y \div 256) % 256,
           y % 256 >>

write_i32(x) ==
    LET y == IF x < 0 THEN (x + 2147483647) + 1 ELSE x
    IN  << y % 256,
           (y \div 256) % 256,
           (y \div 65536) % 256,
           (y \div 16777216) + (IF x < 0 THEN 128 ELSE 0) >>

\* read_i32 without the sign: the top bit of the last byte is dropped
read_i32_unsigned(b) ==
    b[1] + 256 * b[2] + 65536 * b[3] + 16777216 * (b[4] % 128)

read_i32(b) ==
    LET y == b[1] + 256 * b[2] + 65536 * b[3] + 16777216 * (b[4] % 128)
    IN  IF b[4] >= 128 THEN (y - 2147483647) - 1 ELSE y

----------------------------------------------------------------------------
(* raw_packet.rs: PacketType *)

PacketType == {"ResponseAuth", "ResponseValue", "RequestAuth", "RequestExecCommand"}

None == [tag |-> "None"]
Some(v) == [tag |-> "Some", v |-> v]

as_i32(t) ==
    CASE t = "ResponseAuth" -> 2
      [] t = "ResponseValue" -> 0
      [] t = "RequestAuth" -> 3
      [] t = "RequestExecCommand" -> 2

from_response_i32(raw_id) ==
    IF raw_id = 0 THEN Some("ResponseValue")
    ELSE IF raw_id = 2 THEN Some("ResponseAuth")
    ELSE None

\* from_request_i32 reading code 0 as the response table does
from_request_i32_shared(raw_id) ==
    IF raw_id = 3 THEN Some("RequestAuth")
    ELSE IF raw_id = 2 THEN Some("RequestExecCommand")
    ELSE IF raw_id = 0 THEN Some("ResponseValue")
    ELSE None

from_request_i32(raw_id) ==
    IF raw_id = 3 THEN Some("RequestAuth")
    ELSE IF raw_id = 2 THEN Some("RequestExecCommand")
    ELSE None

----------------------------------------------------------------------------
(* raw_packet.rs: RawPacket *)

\* the cap on a body's byte length
MaxBodyLen == 4086
\* psize - body length: id, type, string null, packet null
Overhead == 10

Ok(v) == [tag |-> "Ok", v |-> v]
Err(e) == [tag |-> "Err", err |-> e]

BodyTooLarge == "BodyTooLarge"

\* new with the cap of the whole packet (4096) taken for the cap of the body
new_packet_cap(id, raw_type, body) ==
    LET len == Len(body)
    IN  IF len > MaxBodyLen + Overhead
        THEN Err(BodyTooLarge)
        ELSE Ok([psize |-> len + Overhead, pid |-> id, ptype |-> raw_type, pbody |-> body])

\* RawPacket::new
new(id, raw_type, body) ==
    LET len == Len(body)
    IN  IF len > MaxBodyLen
        THEN Err(BodyTooLarge)
        ELSE Ok([psize |-> len + Overhead, pid |-> id, ptype |-> raw_type, pbody |-> body])

new_from_type(id, raw_body, ptype) == new(id, as_i32(ptype), raw_body)
new_auth(id, pass) == new_from_type(id, pass, "RequestAuth")
\* new_exec without the check of the body's length
new_exec_unchecked(id, command) ==
    Ok([psize |-> Len(command) + Overhead, pid |-> id, ptype |-> 2, pbody |-> command])

\* new_exec giving the type of an auth request
new_exec_as_auth(id, command) == new_from_type(id, command, "RequestAuth")
new_exec(id, command) == new_from_type(id, command, "RequestExecCommand")
new_response_auth(id, value) == new_from_type(id, value, "ResponseAuth")
new_response_value(id, value) == new_from_type(id, value, "ResponseValue")

response_type(packet) == from_response_i32(packet.ptype)
request_type(packet) == from_request_i32(packet.ptype)

\* RawPacketCreationError::to_io_error
to_io_error(e) == [kind |-> "InvalidData", msg |-> "Cannot create RawPacket"]

----------------------------------------------------------------------------
(* raw_packet.rs: serialize.  The writer is any std::io::Write.  A call of *)
(* write may accept fewer bytes than offered and says how many it took;    *)
(* write_all (used by write_i32 and write_u8) repeats write until all is   *)
(* taken and fails with WriteZero when write takes nothing.  A writer is   *)
(* described by                                                            *)
(*   limit  the most bytes one write call accepts (Unlimited, -1, for a    *)
(*          Vec<u8>, which always takes everything),                       *)
(*   fail   the writer call of serialize that returns an I/O error         *)
(*          (1..3 the header fields, 4 the body, 5, 6 the nulls, 7 flush;  *)
(*          0: none).                                                      *)

Unlimited == -1

\* the count Write::write returns for a buffer of len bytes
write(limit, len) == IF limit = Unlimited \/ len <= limit THEN len ELSE limit

RECURSIVE Cat(_, _)
\* the first k of the byte strings in parts, concatenated
Cat(parts, k) == IF k = 0 THEN <<>> ELSE Cat(parts, k - 1) \o parts[k]

\* number of writer calls in serialize: 3 x write_i32, write, 2 x write_u8, flush
SerializeCalls == 7

serialize(self, limit, fail) ==
    LET n == write(limit, Len(self.pbody))
        parts == << write_i32(self.psize), write_i32(self.pid), write_i32(self.ptype),
                    SubSeq(self.pbody, 1, n),       \* w.write(..)?: the count is dropped
                    <<0>>, <<0>> >>
        \* write_all of a non-empty buffer fails when the writer takes nothing
        stop == IF limit = 0 THEN 1 ELSE fail
    IN  IF stop = 0
        THEN [res |-> Ok("unit"), bytes |-> Cat(parts, 6)]
        ELSE [res |-> Err([kind |-> IF limit = 0 THEN "WriteZero" ELSE "Io", msg |-> "write"]),
              bytes |-> Cat(parts, stop - 1)]

(* raw_packet.rs: deserialize, on a reader holding the bytes buf; closed   *)
(* says that nothing more will arrive (end of file after buf).  A read     *)
(* that needs bytes which have not arrived and may still arrive blocks:    *)
(* tag "Block".  rest is what the reader still holds afterwards.           *)
HeaderLen == 12

\* the two read_u8 taken to succeed at the end of the stream as well
terminators_read_at_eof(avail) == TRUE

\* lines 162-163: the two read_u8 succeed when two more bytes are there
terminators_read(avail) == avail >= 2

deserialize(buf, closed) ==
    LET n == Len(buf)
        eof == [tag |-> "Err", err |-> [kind |-> "UnexpectedEof", msg |-> "read"], rest |-> <<>>]
    IN  IF n < HeaderLen
        THEN IF closed THEN eof ELSE [tag |-> "Block"]
        ELSE
        LET psize == read_i32(SubSeq(buf, 1, 4))
            pid   == read_i32(SubSeq(buf, 5, 8))
            ptype == read_i32(SubSeq(buf, 9, 12))
        IN  IF psize < Overhead
            \* (psize as usize) - 10 wraps or overflows; Vec::with_capacity panics
            THEN [tag |-> "Panic", rest |-> SubSeq(buf, HeaderLen + 1, n)]
            ELSE
            LET body_length == psize - Overhead
                avail == n - HeaderLen
                \* take(body_length).read_to_end: stops at body_length or end of file
                got_len == IF avail < body_length THEN avail ELSE body_length
                body_buffer == SubSeq(buf, HeaderLen + 1, HeaderLen + got_len)
                after == SubSeq(buf, HeaderLen + got_len + 1, n)
            IN  IF avail < body_length /\ ~closed
                THEN [tag |-> "Block"]
                ELSE IF ~from_utf8_ok(body_buffer)
                THEN [tag |-> "Err", err |-> [kind |-> "Other", msg |-> "Cannot from_utf8 on body_buffer"],
                      rest |-> after]
                ELSE IF ~terminators_read(Len(after))
                THEN IF closed THEN eof ELSE [tag |-> "Block"]
                ELSE
                LET packet == new(pid, ptype, body_buffer)
                IN  IF packet.tag = "Err"
                    THEN [tag |-> "Err", err |-> to_io_error(packet.err),
                          rest |-> SubSeq(after, 3, Len(after))]
                    ELSE [tag |-> "Ok", v |-> packet.v, rest |-> SubSeq(after, 3, Len(after))]

----------------------------------------------------------------------------
(* The codec harness: new, serialize into a writer, deserialize what the   *)
(* writer holds, classify the type code; or deserialize a frame that some  *)
(* peer has put on the wire.                                               *)

\* the most bytes a short writer accepts in one write call
MaxShortWrite == 2

CodecIds == {I32Min, -1, 0, 1, 305419896, I32Max}
CodecTypes == {-7, 0, 1, 2, 3, 5}
\* "", "He", a NUL, U+00E9, and texts at and just over the cap
CodecBodies == {"", "He", "nul", "e-acute", "max", "oversize"}
WriterLimits == (0..MaxShortWrite) \cup {Unlimited}
WriterFails == 0..SerializeCalls

\* bytes of a frame as a peer may send it: the size field is the peer's to choose
Frame(size, id, type, body, tail) ==
    write_i32(size) \o write_i32(id) \o write_i32(type) \o body \o tail

RawFrames ==
    { Frame(12, 0, 0, StrHe, <<0, 0>>),                       \* well formed
      Frame(12, -1, 2, StrHe, <<7, 9>>),                      \* terminators not null
      Frame(MaxBodyLen + 10, 5, 0, Fill(MaxBodyLen), <<0, 0>>),
      Frame(MaxBodyLen + 11, 5, 0, Fill(MaxBodyLen + 1), <<0, 0>>),   \* body over the cap
      Frame(11, 0, 0, <<255>>, <<0, 0>>),                     \* body not UTF-8
      Frame(13, 0, 0, StrHe, <<0, 0>>),                       \* size larger than the frame
      Frame(10, 0, 2, <<>>, <<0>>),                           \* one terminator missing
      Frame(9, 0, 0, <<>>, <<0, 0>>),                         \* size below the overhead
      Frame(-1, 0, 0, <<>>, <<0, 0>>),                        \* negative size
      Frame(12, 0, 0, <<72>>, <<>>),                          \* cut inside the body
      Frame(12, 0, 0, <<195>>, <<>>),                         \* cut inside a character
      Frame(12, 0, 0, StrHe, <<>>),                           \* cut before the terminators
      Frame(9, 0, 0, <<>>, <<>>),                             \* size below the overhead, cut
      <<12, 0, 0>> }                                          \* cut inside the header

NoInput == [id |-> 0, type |-> 0, body |-> "", limit |-> Unlimited, fail |-> 0]

\* no stream of several packets in use
StreamIdle == sin = [pkts |-> <<>>, limit |-> Unlimited] /\ ssent = 0 /\ swire = <<>> /\ sout = <<>>

CodecIdle ==
    /\ StreamIdle
    /\ cstep = "idle" /\ cin = NoInput /\ cpkt = None /\ cser = None
    /\ cwire = <<>> /\ cback = None /\ cframe = <<>> /\ cfac = None /\ ccls = None

\* no compliant peer at work: the peer of Spec follows no script
NoPeer == [script |-> "none", taken |-> -1, due |-> <<>>]

SessionIdle ==
    /\ pc = "start" /\ args = [call |-> "none"] /\ control_packet = None /\ response_str = <<>>
    /\ result = None /\ auth = None /\ rx = <<>> /\ rx_closed = FALSE
    /\ peer_sent = 0 /\ calls = 0 /\ log = <<>> /\ got = <<>> /\ peer = NoPeer

CodecInit ==
    /\ cstep = "new"
    /\ cin \in [id : CodecIds, type : CodecTypes, body : CodecBodies,
                limit : WriterLimits, fail : WriterFails]
    /\ cpkt = None /\ cser = None /\ cwire = <<>> /\ cback = None
    /\ cframe = <<>> /\ cfac = None /\ ccls = None
    /\ StreamIdle
    /\ SessionIdle

\* RawPacket::new(id, type, body)
CNew ==
    /\ cstep = "new"
    /\ cpkt' = new(cin.id, cin.type, Text(cin.body))
    /\ cstep' = IF cpkt'.tag = "Ok" THEN "serialize" ELSE "classify"
    /\ UNCHANGED <<cin, cser, cwire, cback, cframe, cfac, ccls, svars, stvars>>

\* packet.serialize(&mut w)
CSerialize ==
    /\ cstep = "serialize"
    /\ LET s == serialize(cpkt.v, cin.limit, cin.fail)
       IN  /\ cser' = s.res
           /\ cwire' = s.bytes
    /\ cstep' = "deserialize"
    /\ UNCHANGED <<cin, cpkt, cback, cframe, cfac, ccls, svars, stvars>>

\* a peer's frame instead of the writer's bytes
CFeed ==
    /\ cstep = "new"
    /\ cin.limit = Unlimited /\ cin.fail = 0 /\ cin.body = ""
    /\ \E f \in RawFrames : cwire' = f
    /\ cstep' = "deserialize"
    /\ UNCHANGED <<cin, cpkt, cser, cback, cframe, cfac, ccls, svars, stvars>>

\* RawPacket::deserialize(&mut r), r a reader over the bytes in cwire
CDeserialize ==
    /\ cstep = "deserialize"
    /\ LET d == deserialize(cwire, TRUE)
       IN  /\ cback' = [x \in DOMAIN d \ {"rest"} |-> d[x]]
           /\ cwire' = d.rest
    /\ cframe' = cwire
    /\ cstep' = "classify"
    /\ UNCHANGED <<cin, cpkt, cser, cfac, ccls, svars, stvars>>

\* from_response_i32 / from_request_i32 on the type code, and as_i32 of each kind
CClassify ==
    /\ cstep = "classify"
    /\ ccls' = [response |-> from_response_i32(cin.type),
                request |-> from_request_i32(cin.type),
                code |-> [t \in PacketType |-> as_i32(t)],
                back |-> [t \in PacketType |->
                            IF t \in {"ResponseAuth", "ResponseValue"}
                            THEN from_response_i32(as_i32(t))
                            ELSE from_request_i32(as_i32(t))]]
    /\ cstep' = "factories"
    /\ UNCHANGED <<cin, cpkt, cser, cwire, cback, cframe, cfac, svars, stvars>>

\* RawPacket::new with type code 2, and the factory functions, on the id and body
CFactories ==
    /\ cstep = "factories"
    /\ cfac' = [raw |-> new(cin.id, 2, Text(cin.body)),
                from_type |-> new_from_type(cin.id, Text(cin.body), "RequestExecCommand"),
                exec |-> new_exec(cin.id, Text(cin.body)),
                auth |-> new_auth(cin.id, Text(cin.body)),
                response_auth |-> new_response_auth(cin.id, Text(cin.body)),
                response_value |-> new_response_value(cin.id, Text(cin.body))]
    /\ cstep' = "done"
    /\ UNCHANGED <<cin, cpkt, cser, cwire, cback, cframe, ccls, svars, stvars>>

CodecNext == CNew \/ CSerialize \/ CFeed \/ CDeserialize \/ CClassify \/ CFactories

CodecSpec == CodecInit /\ [][CodecNext]_vars

----------------------------------------------------------------------------
(* Several packets on one stream: a writer serializes the packets of sin   *)
(* one after the other onto the stream while a reader calls deserialize on *)
(* it again and again; a deserialize that needs bytes not yet written      *)
(* waits for them.                                                         *)

\* packets on one stream in one run
MaxStream == 3

StreamPackets ==
    { [id |-> i, type |-> (IF i = 0 THEN 2 ELSE 0), body |-> b] :
        i \in {0, -1}, b \in {"", "He", "e-acute"} }

StreamInit ==
    /\ \E n \in 0..MaxStream, limit \in {Unlimited, 1} :
          sin \in [pkts : [1..n -> StreamPackets], limit : {limit}]
    /\ ssent = 0 /\ swire = <<>> /\ sout = <<>>
    /\ cstep = "idle" /\ cin = NoInput /\ cpkt = None /\ cser = None
    /\ cwire = <<>> /\ cback = None /\ cframe = <<>> /\ cfac = None /\ ccls = None
    /\ SessionIdle

\* the next packet is built and serialized onto the stream
SSerialize ==
    /\ ssent < Len(sin.pkts)
    /\ LET i == sin.pkts[ssent + 1]
           packet == new(i.id, i.type, Text(i.body))
       IN  swire' = swire \o serialize(packet.v, sin.limit, 0).bytes
    /\ ssent' = ssent + 1
    /\ UNCHANGED <<sin, sout, cstep, cin, cpkt, cser, cwire, cback, cframe, cfac, ccls, svars>>

\* RawPacket::deserialize on the stream; a panic ends the reader
SDeserialize ==
    /\ \A k \in DOMAIN sout : sout[k].tag # "Panic"
    /\ LET d == deserialize(swire, FALSE)
       IN  /\ d.tag # "Block"
           /\ sout' = Append(sout, [x \in DOMAIN d \ {"rest"} |-> d[x]])
           /\ swire' = d.rest
    /\ UNCHANGED <<sin, ssent, cstep, cin, cpkt, cser, cwire, cback, cframe, cfac, ccls, svars>>

StreamNext == SSerialize \/ SDeserialize

StreamSpec == StreamInit /\ [][StreamNext]_vars

----------------------------------------------------------------------------
(* ll.rs *)

\* a send_packet that returns Ok and writes nothing
send_packet_nothing(packet, limit, fail) == [res |-> Ok("unit"), bytes |-> <<>>]

\* send_packet: packet.serialize(stream)
send_packet(packet, limit, fail) == serialize(packet, limit, fail)

\* a recv_packet that throws away what the stream holds after the packet
recv_packet_drain(buf, closed) ==
    LET d == deserialize(buf, closed)
    IN  IF d.tag = "Block" THEN d ELSE [d EXCEPT !.rest = <<>>]

\* recv_packet: RawPacket::deserialize(stream)
recv_packet(buf, closed) == deserialize(buf, closed)

----------------------------------------------------------------------------
(* client.rs *)

CONTROL_ID == -1
START_ID == 0

\* check_auth without the comparison of the ids
check_auth_any_id(packet_id, packet) ==
    IF response_type(packet) = Some("ResponseAuth") THEN "Valid" ELSE "NoAuth"

check_auth(packet_id, packet) ==
    IF response_type(packet) = Some("ResponseAuth")
    THEN IF packet.pid = packet_id THEN "Valid" ELSE "Invalid"
    ELSE "NoAuth"

IoError(kind, msg) == [kind |-> kind, msg |-> msg]

ErrNoAuthProtocol == IoError("Other", "No valid authentication protocol by server.")
ErrWrongPassword == IoError("Other", "Authentication failed. Wrong password.")
ErrAddress == IoError("Other", "cannot parse internet address.")
ErrAuthPacket == IoError("Other", "auth packet creation error")
ErrConnect == IoError("Io", "connect")

----------------------------------------------------------------------------
(* The transport and its peer.  The peer is not trusted: it may send any   *)
(* of its frames and may close the connection.  The client only ever does  *)
(* blocking reads of an ordered byte stream, so what it sees is the order  *)
(* of the bytes and where the stream ends, not when they arrived: a frame  *)
(* is delivered when the client waits for it.                              *)

\* frames the peer sends in one run
MaxPeerFrames == 4
\* exec calls in one run
MaxExecs == 2

PeerPackets ==
    { [pid |-> 0,  ptype |-> 2, pbody |-> <<>>],       \* auth response, accepted
      [pid |-> -1, ptype |-> 2, pbody |-> <<>>],       \* auth response, refused
      [pid |-> 0,  ptype |-> 0, pbody |-> StrHe],      \* response fragments
      [pid |-> 0,  ptype |-> 0, pbody |-> StrLlo],
      [pid |-> -1, ptype |-> 0, pbody |-> <<>>],       \* replies to the control packet
      [pid |-> -1, ptype |-> 0, pbody |-> StrLlo] }

PeerFrames ==
    { Frame(Len(p.pbody) + Overhead, p.pid, p.ptype, p.pbody, <<0, 0>>) : p \in PeerPackets }
    \cup { Frame(9, 0, 0, <<>>, <<0, 0>>) }            \* a size below the overhead

Passwords == {"secret", "oversize"}
SafeCommands == {None, Some("echo"), Some("oversize")}
Commands == {"He", "oversize"}

\* a TcpStream takes at least one byte of a non-empty buffer, or fails
TcpLimits == {Unlimited} \cup (1..MaxShortWrite)
\* the writer call that fails: none, the first header field, the body, the flush
TcpFails == {0, 1, 4, SerializeCalls}

WriteEvent(packet, s) ==
    [op |-> "write", pid |-> packet.pid, bytes |-> s.bytes, ok |-> s.res.tag = "Ok"]
ReadEvent == [op |-> "read"]

Init ==
    /\ CodecIdle
    /\ SessionIdle

\* the calling thread is blocked in a read: the bytes it needs have not arrived
Waiting ==
    /\ pc \in {"auth_first", "auth_second", "exec_recv_first", "exec_loop"}
    /\ recv_packet(rx, FALSE).tag = "Block"

PeerSend ==
    /\ peer_sent < MaxPeerFrames
    /\ ~rx_closed
    /\ Waiting
    /\ \E f \in PeerFrames : rx' = rx \o f
    /\ peer_sent' = peer_sent + 1
    /\ UNCHANGED <<cvars, pc, args, control_packet, response_str, result, auth,
                   rx_closed, calls, log, got, peer>>

PeerClose ==
    /\ ~rx_closed
    /\ Waiting
    /\ rx_closed' = TRUE
    /\ UNCHANGED <<cvars, pc, args, control_packet, response_str, result, auth,
                   rx, peer_sent, calls, log, got, peer>>

----------------------------------------------------------------------------
(* RconClient::open.  The address is parsed, the auth packet is built, the *)
(* connection is made and the auth packet is sent; then recv_auth reads    *)
(* one or two packets; then the control packet is built.                   *)

\* open_session without the test of is_auth
open_session_unchecked(is_auth, safe_command) ==
    LET cp == IF safe_command.tag = "Some"
              THEN new_exec(CONTROL_ID, Text(safe_command.v))
              ELSE new_response_value(CONTROL_ID, <<>>)
    IN  IF cp.tag = "Err"
        THEN [pc |-> "failed", result |-> Err(to_io_error(cp.err)), control_packet |-> None]
        ELSE [pc |-> "idle", result |-> Ok("RconClient"), control_packet |-> Some(cp.v)]

\* open_session building the control packet with the id of the commands
open_session_start_id(is_auth, safe_command) ==
    IF is_auth
    THEN LET cp == IF safe_command.tag = "Some"
                   THEN new_exec(START_ID, Text(safe_command.v))
                   ELSE new_response_value(START_ID, <<>>)
         IN  IF cp.tag = "Err"
             THEN [pc |-> "failed", result |-> Err(to_io_error(cp.err)), control_packet |-> None]
             ELSE [pc |-> "idle", result |-> Ok("RconClient"), control_packet |-> Some(cp.v)]
    ELSE [pc |-> "failed", result |-> Err(ErrWrongPassword), control_packet |-> None]

\* open after recv_auth has returned Ok(is_auth): the control packet and the session
open_session(is_auth, safe_command) ==
    IF is_auth
    THEN LET cp == IF safe_command.tag = "Some"
                   THEN new_exec(CONTROL_ID, Text(safe_command.v))
                   ELSE new_response_value(CONTROL_ID, <<>>)
         IN  IF cp.tag = "Err"
             THEN [pc |-> "failed", result |-> Err(to_io_error(cp.err)), control_packet |-> None]
             ELSE [pc |-> "idle", result |-> Ok("RconClient"), control_packet |-> Some(cp.v)]
    ELSE [pc |-> "failed", result |-> Err(ErrWrongPassword), control_packet |-> None]

\* recv_auth reading on for as long as no AuthResponse has come
recv_auth_reads_on(second, packet) ==
    LET c == check_auth(START_ID, packet)
    IN  IF c = "NoAuth" THEN [tag |-> "Again"] ELSE Ok(c = "Valid")

\* recv_auth after its first (second = FALSE) or second recv_packet returned packet
recv_auth(second, packet) ==
    LET c == check_auth(START_ID, packet)
    IN  IF c = "NoAuth"
        THEN IF second THEN Err(ErrNoAuthProtocol) ELSE [tag |-> "Again"]
        ELSE Ok(c = "Valid")

Open ==
    /\ pc = "start"
    /\ \E pass \in Passwords, safe_command \in SafeCommands,
          net \in {"ok", "bad address", "no connection"} :
        LET auth_packet == new(START_ID, 3, Text(pass))
        IN  /\ args' = [call |-> "open", pass |-> pass, safe_command |-> safe_command]
            /\ IF net = "bad address"
               THEN /\ result' = Err(ErrAddress) /\ pc' = "failed" /\ log' = <<>>
               ELSE IF auth_packet.tag = "Err"
               THEN /\ result' = Err(ErrAuthPacket) /\ pc' = "failed" /\ log' = <<>>
               ELSE IF net = "no connection"
               THEN /\ result' = Err(ErrConnect) /\ pc' = "failed" /\ log' = <<>>
               ELSE \E limit \in TcpLimits, fail \in TcpFails :
                      LET s == send_packet(auth_packet.v, limit, fail)
                      IN  /\ log' = <<WriteEvent(auth_packet.v, s)>>
                          /\ IF s.res.tag = "Err"
                             THEN /\ result' = s.res /\ pc' = "failed"
                             ELSE /\ result' = None /\ pc' = "auth_first"
    /\ UNCHANGED <<cvars, control_packet, response_str, auth, rx, rx_closed,
                   peer_sent, calls, got, peer>>

RecvAuth(second) ==
    LET d == recv_packet(rx, rx_closed)
    IN  /\ d.tag # "Block"
        /\ rx' = d.rest
        /\ log' = Append(log, ReadEvent)
        /\ IF d.tag = "Panic"
           THEN /\ pc' = "panic"
                /\ UNCHANGED <<auth, result, control_packet, got>>
           ELSE IF d.tag = "Err"
           THEN /\ auth' = Err(d.err) /\ result' = Err(d.err) /\ pc' = "failed"
                /\ UNCHANGED <<control_packet, got>>
           ELSE LET a == recv_auth(second, d.v)
                IN  /\ got' = Append(got, d.v)
                    /\ IF a.tag = "Again"
                       THEN /\ pc' = "auth_second"
                            /\ UNCHANGED <<auth, result, control_packet>>
                       ELSE IF a.tag = "Err"
                       THEN /\ auth' = a /\ result' = a /\ pc' = "failed"
                            /\ UNCHANGED control_packet
                       ELSE LET o == open_session(a.v, args.safe_command)
                            IN  /\ auth' = a
                                /\ pc' = o.pc
                                /\ result' = o.result
                                /\ control_packet' = o.control_packet
        /\ UNCHANGED <<cvars, args, response_str, rx_closed, peer_sent, calls, peer>>

RecvAuthFirst == pc = "auth_first" /\ RecvAuth(FALSE)

RecvAuthSecond == pc = "auth_second" /\ RecvAuth(TRUE)

----------------------------------------------------------------------------
(* RconClient::exec *)

\* accumulate with a line feed put between the fragments
accumulate_with_newline(acc, packet) == acc \o <<10>> \o packet.pbody

\* fragments that are accumulated in the first exec call of a session only
accumulate_in_first_call(acc, packet) == IF calls > 1 THEN acc ELSE acc \o packet.pbody

\* an error of recv_packet returned together with the text accumulated so far
propagate_with_text(err, acc) == [tag |-> "Err", err |-> err, partial |-> acc]

\* lines 175, 182: recv_packet(..)? leaves exec with the error and nothing else
propagate(err, acc) == Err(err)

\* line 184: response_str + &control.pbody
accumulate(acc, packet) == acc \o packet.pbody

Exec ==
    /\ pc = "idle"
    /\ calls < MaxExecs
    /\ calls' = calls + 1
    /\ got' = <<>>
    /\ response_str' = <<>>
    /\ \E command \in Commands :
        LET packet == new_exec(START_ID, Text(command))
        IN  /\ args' = [call |-> "exec", command |-> command]
            /\ IF packet.tag = "Err"
               THEN /\ result' = Err(to_io_error(packet.err)) /\ pc' = "idle" /\ log' = <<>>
               ELSE \E l1 \in TcpLimits, f1 \in TcpFails :
                      LET s1 == send_packet(packet.v, l1, f1)                 \* send command
                      IN  IF s1.res.tag = "Err"
                          THEN /\ result' = s1.res /\ pc' = "idle"
                               /\ log' = <<WriteEvent(packet.v, s1)>>
                          ELSE \E l2 \in TcpLimits, f2 \in TcpFails :
                                 LET s2 == send_packet(control_packet.v, l2, f2)  \* send control_packet
                                 IN  /\ log' = <<WriteEvent(packet.v, s1),
                                                 WriteEvent(control_packet.v, s2)>>
                                     /\ IF s2.res.tag = "Err"
                                        THEN /\ result' = s2.res /\ pc' = "idle"
                                        ELSE /\ result' = None /\ pc' = "exec_recv_first"
    /\ UNCHANGED <<cvars, control_packet, auth, rx, rx_closed, peer_sent, peer>>

\* lines 174-176: the first recv_packet; its body starts response_str
ExecRecvFirst ==
    /\ pc = "exec_recv_first"
    /\ LET d == recv_packet(rx, rx_closed)
       IN  /\ d.tag # "Block"
           /\ rx' = d.rest
           /\ log' = Append(log, ReadEvent)
           /\ IF d.tag = "Panic"
              THEN /\ pc' = "panic" /\ UNCHANGED <<result, response_str, got>>
              ELSE IF d.tag = "Err"
              THEN /\ result' = propagate(d.err, response_str) /\ pc' = "idle"
                   /\ UNCHANGED <<response_str, got>>
              ELSE /\ response_str' = d.v.pbody
                   /\ got' = Append(got, d.v)
                   /\ pc' = "exec_loop"
                   /\ UNCHANGED result
    /\ UNCHANGED <<cvars, args, control_packet, auth, rx_closed, peer_sent, calls, peer>>

\* lines 180-193: one turn of the while loop, and the return when it ends
ExecLoop ==
    /\ pc = "exec_loop"
    /\ LET d == recv_packet(rx, rx_closed)
       IN  /\ d.tag # "Block"
           /\ rx' = d.rest
           /\ log' = Append(log, ReadEvent)
           /\ IF d.tag = "Panic"
              THEN /\ pc' = "panic" /\ UNCHANGED <<result, response_str, got>>
              ELSE IF d.tag = "Err"
              THEN /\ result' = propagate(d.err, response_str) /\ pc' = "idle"
                   /\ UNCHANGED <<response_str, got>>
              ELSE /\ got' = Append(got, d.v)
                   /\ IF d.v.pid # CONTROL_ID
                      THEN /\ response_str' = accumulate(response_str, d.v)
                           /\ pc' = "exec_loop"
                           /\ UNCHANGED result
                      ELSE /\ result' = Ok(response_str)
                           /\ pc' = "idle"
                           /\ UNCHANGED response_str
    /\ UNCHANGED <<cvars, args, control_packet, auth, rx_closed, peer_sent, calls, peer>>

Next ==
    \/ Open
    \/ RecvAuthFirst
    \/ RecvAuthSecond
    \/ Exec
    \/ ExecRecvFirst
    \/ ExecLoop
    \/ PeerSend
    \/ PeerClose

Spec == Init /\ [][Next]_vars

----------------------------------------------------------------------------
(* The session against a compliant, deterministic peer on a transport that *)
(* takes every byte (module doc, "Safe/Check Command"): the peer processes *)
(* the requests in the order they arrived, answers each with packets that  *)
(* carry the id of the request, answers a command with the fragments of    *)
(* its script (the same for every command of the run) and the check packet *)
(* with exactly one packet.                                                *)

\* the answers to the auth request: an auth response, alone or after an empty
\* response value, or a refusal
AuthScripts ==
    { << [pid |-> 0, ptype |-> 2, pbody |-> <<>>] >>,
      << [pid |-> 0, ptype |-> 0, pbody |-> <<>>], [pid |-> 0, ptype |-> 2, pbody |-> <<>>] >>,
      << [pid |-> -1, ptype |-> 2, pbody |-> <<>>] >> }
\* the bodies of the fragments that answer a command: none, one, two
FragmentLists == {<<>>, <<StrHe>>, <<StrHe, StrLlo>>}
\* the body of the one packet that answers the check packet
SentinelBodies == {<<>>, StrLlo}

PeerScripts == [auth : AuthScripts, frags : FragmentLists, sbody : SentinelBodies]

\* every send_packet of the call in progress returned Ok and the stream took all its bytes
Reliable ==
    \A i \in DOMAIN log :
        log[i].op = "write" =>
            /\ log[i].ok
            /\ Len(log[i].bytes) = read_i32(SubSeq(log[i].bytes, 1, 4)) + 4

\* the peer's packets for the two requests of an exec call, with the requests' ids
Answer(script, command_id, control_id) ==
    [i \in 1..Len(script.frags) |-> [pid |-> command_id, ptype |-> 0, pbody |-> script.frags[i]]]
        \o << [pid |-> control_id, ptype |-> 0, pbody |-> script.sbody] >>

\* the peer takes the auth request and owes its answer
FifoPeerAuth ==
    /\ args.call = "open" /\ pc = "auth_first"
    /\ peer.taken = -1
    /\ \E script \in PeerScripts :
          peer' = [script |-> script, taken |-> 0, due |-> script.auth]
    /\ UNCHANGED <<cvars, pc, args, control_packet, response_str, result, auth,
                   rx, rx_closed, peer_sent, calls, log, got>>

\* the peer takes the command and the check packet of an exec call, in this order
FifoPeerTake ==
    /\ args.call = "exec"
    /\ peer.taken >= 0 /\ peer.taken < calls
    /\ Len(log) >= 2 /\ log[1].op = "write" /\ log[2].op = "write"
    /\ peer' = [peer EXCEPT !.taken = calls,
                            !.due = @ \o Answer(peer.script, log[1].pid, log[2].pid)]
    /\ UNCHANGED <<cvars, pc, args, control_packet, response_str, result, auth,
                   rx, rx_closed, peer_sent, calls, log, got>>

\* the peer sends the next packet it owes
FifoPeerSend ==
    /\ peer.due # <<>>
    /\ LET p == Head(peer.due)
       IN  rx' = rx \o Frame(Len(p.pbody) + Overhead, p.pid, p.ptype, p.pbody, <<0, 0>>)
    /\ peer' = [peer EXCEPT !.due = Tail(@)]
    /\ peer_sent' = peer_sent + 1
    /\ UNCHANGED <<cvars, pc, args, control_packet, response_str, result, auth,
                   rx_closed, calls, log, got>>

FifoOpen == Open /\ Reliable'

FifoExec == Exec /\ Reliable'

FifoNext ==
    \/ FifoOpen
    \/ RecvAuthFirst
    \/ RecvAuthSecond
    \/ FifoExec
    \/ ExecRecvFirst
    \/ ExecLoop
    \/ FifoPeerAuth
    \/ FifoPeerTake
    \/ FifoPeerSend

FifoSpec == Init /\ [][FifoNext]_vars

----------------------------------------------------------------------------
(* Properties of exec and of the handshake, checked under Spec.            *)

InExec == args.call = "exec"
InOpen == args.call = "open"

\* the number of recv_packet calls of the call in progress
Reads == Cardinality({i \in DOMAIN log : log[i].op = "read"})
\* the number of send_packet calls of the call in progress
Writes == Cardinality({i \in DOMAIN log : log[i].op = "write"})

RECURSIVE Concat(_)
\* the bodies of the packets in pkts, joined in order with nothing between them
Concat(pkts) == IF pkts = <<>> THEN <<>> ELSE Head(pkts).pbody \o Concat(Tail(pkts))

\* the places in got of the packets that carry the sentinel id
Sentinels == {i \in DOMAIN got : got[i].pid = -1}

\* C1: when an exec call has received one or more packets whose id is not the
\* sentinel id (-1) and then a packet with the sentinel id, it has returned Ok
\* with the bodies of the packets before the sentinel, concatenated in the order
\* received with no delimiter, and it has read nothing after the sentinel.
C1_ExecConcatenatesFragments ==
    (InExec /\ got # <<>> /\ got[1].pid # -1 /\ Sentinels # {})
        => \E k \in Sentinels :
              /\ \A i \in 1..(k - 1) : got[i].pid # -1
              /\ Len(got) = k
              /\ pc = "idle"
              /\ result = Ok(Concat(SubSeq(got, 1, k - 1)))

\* C1 witness: fragments "He", "llo", then the sentinel: exec returned "Hello".
C1_Witness ==
    /\ InExec /\ pc = "idle" /\ Len(got) = 3
    /\ got[1].pbody = <<72, 101>> /\ got[1].pid = 0
    /\ got[2].pbody = <<108, 108, 111>> /\ got[2].pid = 0
    /\ got[3].pid = -1
    /\ result = Ok(<<72, 101, 108, 108, 111>>)

\* C2: when the first packet an exec call receives has the sentinel id, the call
\* consumes exactly that one packet (it reads once) and returns the empty string.
C2_SentinelFirstReturnsAtOnce ==
    (InExec /\ got # <<>> /\ got[1].pid = -1)
        => /\ Reads = 1
           /\ Len(got) = 1
           /\ pc = "idle"
           /\ result = Ok(<<>>)

\* the packet is an AuthResponse: type code 2 read as a response
IsAuthResponse(p) == p.ptype = 2

\* the handshake's acceptance condition on the packets received
Accepting ==
    \/ /\ Len(got) >= 1 /\ IsAuthResponse(got[1]) /\ got[1].pid = 0
    \/ /\ Len(got) >= 2 /\ ~IsAuthResponse(got[1])
       /\ IsAuthResponse(got[2]) /\ got[2].pid = 0

\* open has returned
OpenDone == InOpen /\ pc \in {"idle", "failed"}

\* the control packet can be built: no safe command, or one within the body cap
SentinelFits ==
    args.safe_command.tag = "Some" => Len(Text(args.safe_command.v)) <= 4086

\* C3 as stated: open returns a session exactly when the first packet received is
\* an AuthResponse with the login id, or the first is not an AuthResponse and the
\* second is an AuthResponse with the login id.
C3_SessionIffAccepted ==
    OpenDone => ((result = Ok("RconClient")) <=> Accepting)

\* C3 amended: recv_auth returns Ok(true) exactly under that condition, and open
\* returns a session exactly when, besides, the control packet can be built (the
\* safe command, if one was given, is at most 4086 bytes long).
C3_AuthenticatedIffAccepted ==
    OpenDone =>
        /\ (auth = Ok(TRUE)) <=> Accepting
        /\ (result = Ok("RconClient")) <=> (Accepting /\ SentinelFits)
        /\ (result = Ok("RconClient")) <=> (control_packet # None)

\* C3 witness: the two-packet dialect, a ValueResponse and then the AuthResponse
\* with the login id, ended in a session.
C3_Witness ==
    /\ OpenDone /\ result = Ok("RconClient") /\ Len(got) = 2
    /\ got[1].ptype = 0 /\ got[2].ptype = 2 /\ got[2].pid = 0

\* C4: if neither the first nor the second packet of the handshake is an
\* AuthResponse, open fails with the protocol error; the handshake never reads a
\* third packet, and it reads a second one only after a first packet that was
\* not an AuthResponse.
C4_TwoPacketsAtMost ==
    InOpen =>
        /\ (Len(got) >= 2 /\ ~IsAuthResponse(got[1]) /\ ~IsAuthResponse(got[2]))
              => (pc = "failed" /\ result = Err(ErrNoAuthProtocol)
                  /\ auth = Err(ErrNoAuthProtocol))
        /\ Reads <= 2
        /\ Len(got) <= 2
        /\ (Reads = 2 \/ pc = "auth_second")
              => (Len(got) >= 1 /\ ~IsAuthResponse(got[1]))

\* C4 witness: two ValueResponse packets ended the handshake in the protocol error.
C4_Witness ==
    /\ InOpen /\ pc = "failed" /\ Reads = 2 /\ Len(got) = 2
    /\ got[1].ptype = 0 /\ got[2].ptype = 0
    /\ result = Err(ErrNoAuthProtocol)

\* the place in got of the first AuthResponse, if there is one
FirstAuth == {i \in DOMAIN got : IsAuthResponse(got[i]) /\ \A j \in 1..(i - 1) : ~IsAuthResponse(got[j])}

\* C5: if the first AuthResponse seen by the handshake has an id other than the
\* login id, open fails as rejected; rejection and the protocol error are
\* different errors, each ends open with no session, and after either nothing
\* more is read or written (no retry).
C5_RejectedAndProtocolError ==
    InOpen =>
        /\ \A i \in FirstAuth : got[i].pid # 0 =>
              /\ pc = "failed"
              /\ result = Err(ErrWrongPassword)
              /\ auth = Ok(FALSE)
              /\ Reads = i
        /\ (result = Err(ErrWrongPassword) \/ result = Err(ErrNoAuthProtocol)) =>
              /\ pc = "failed"
              /\ control_packet = None
              /\ Writes = 1
              /\ Reads = Len(got)
              /\ ~ENABLED Next
        /\ auth = Ok(FALSE) => result = Err(ErrWrongPassword)
        /\ auth = Err(ErrNoAuthProtocol) => result = Err(ErrNoAuthProtocol)
        /\ ErrWrongPassword # ErrNoAuthProtocol

\* C5 witness: an AuthResponse with another id in second position: rejected.
C5_Witness ==
    /\ InOpen /\ pc = "failed" /\ Len(got) = 2
    /\ got[1].ptype = 0 /\ got[2].ptype = 2 /\ got[2].pid = -1
    /\ result = Err(ErrWrongPassword) /\ control_packet = None

\* the bytes of packet p on the wire: size, id, type, body, two nulls
WireImage(p) == Frame(Len(p.pbody) + 10, p.pid, p.ptype, p.pbody, <<0, 0>>)

\* C6: in an exec call, before the first read the command packet (id 0) has been
\* written whole, then the control packet (id -1) whole, and from the first read
\* on nothing is written.
C6_WritesCompleteBeforeReads ==
    (InExec /\ (Reads >= 1 \/ pc = "exec_recv_first")) =>
        /\ Len(log) >= 2
        /\ log[1] = [op |-> "write", pid |-> 0, ok |-> TRUE,
                     bytes |-> WireImage([pid |-> 0, ptype |-> 2, pbody |-> Text(args.command)])]
        /\ log[2] = [op |-> "write", pid |-> -1, ok |-> TRUE,
                     bytes |-> WireImage(control_packet.v)]
        /\ \A i \in 3..Len(log) : log[i].op = "read"

----------------------------------------------------------------------------
(* Properties of the codec and the classifier, checked under CodecSpec.    *)

\* the harness went through new and serialize (not a peer's frame)
Serialized == cpkt.tag = "Ok" /\ cser.tag = "Ok"

\* C7: for a body of 0..4086 bytes, deserializing what serialize wrote into a
\* byte buffer (a writer that takes every byte offered) gives back a packet equal
\* to the one built by new, with the id, type and body given and size = length +
\* 10, and leaves nothing in the buffer.
C7_RoundTrip ==
    (cstep \in {"classify", "done"} /\ Serialized
        /\ (cin.limit = Unlimited \/ Len(Text(cin.body)) <= cin.limit))
        => /\ cback = Ok(cpkt.v)
           /\ cback.v.pid = cin.id
           /\ cback.v.ptype = cin.type
           /\ cback.v.pbody = Text(cin.body)
           /\ cback.v.psize = Len(Text(cin.body)) + 10
           /\ cwire = <<>>

\* C7 witness: the round trip of a packet with the least id and a body of 4086 bytes.
C7_Witness ==
    /\ cstep = "done" /\ Serialized /\ cin.limit = Unlimited
    /\ cin.id = I32Min /\ cin.body = "max" /\ cback.tag = "Ok"
    /\ Len(cback.v.pbody) = 4086

\* C8: new succeeds exactly when the body is at most 4086 bytes long and fails
\* with BodyTooLarge otherwise; a packet built by new or returned by deserialize
\* has size = length of its body + 10 and a body of at most 4086 bytes.
C8_BodyCapAndSize ==
    /\ cpkt # None =>
          /\ (cpkt.tag = "Ok") <=> (Len(Text(cin.body)) <= 4086)
          /\ (cpkt.tag # "Ok") => cpkt = Err("BodyTooLarge")
          /\ (cpkt.tag = "Ok") =>
                /\ cpkt.v.psize = Len(cpkt.v.pbody) + 10
                /\ Len(cpkt.v.pbody) <= 4086
                /\ cpkt.v.pbody = Text(cin.body)
    /\ (cback # None /\ cback.tag = "Ok") =>
          /\ cback.v.psize = Len(cback.v.pbody) + 10
          /\ Len(cback.v.pbody) <= 4086

\* C8 witness: new has refused a body of 4087 bytes.
C8_Witness ==
    /\ cstep = "done" /\ cin.body = "oversize" /\ Len(Text(cin.body)) = 4087
    /\ cpkt = Err("BodyTooLarge")

\* C9: whenever serialize returns Ok, the writer has received size, id and type
\* as 4-byte little-endian integers, every body byte and two nulls, size + 4
\* bytes in all, also when the writer accepts fewer bytes than offered in one
\* write call.
C9_SerializeWritesWholePacket ==
    (cstep = "deserialize" /\ Serialized) =>
        /\ cwire = write_i32(cpkt.v.psize) \o write_i32(cpkt.v.pid) \o write_i32(cpkt.v.ptype)
                     \o cpkt.v.pbody \o <<0>> \o <<0>>
        /\ Len(cwire) = cpkt.v.psize + 4

\* C10: read as a response, code 0 is ResponseValue, 2 is ResponseAuth, any other
\* code is unknown; read as a request, 2 is RequestExecCommand, 3 is RequestAuth,
\* any other code (0 too) is unknown; as_i32 and then the classifier of the
\* kind's direction gives back each of the four kinds.
C10_DirectionalClassification ==
    cstep = "done" =>
        /\ ccls.response = (IF cin.type = 0 THEN Some("ResponseValue")
                            ELSE IF cin.type = 2 THEN Some("ResponseAuth")
                            ELSE None)
        /\ ccls.request = (IF cin.type = 2 THEN Some("RequestExecCommand")
                           ELSE IF cin.type = 3 THEN Some("RequestAuth")
                           ELSE None)
        /\ \A t \in PacketType : ccls.back[t] = Some(t)
        /\ ccls.code["ResponseValue"] = 0 /\ ccls.code["ResponseAuth"] = 2
        /\ ccls.code["RequestExecCommand"] = 2 /\ ccls.code["RequestAuth"] = 3

\* C10 witness: code 2 was read as ResponseAuth and as RequestExecCommand, and
\* code 0 of ResponseValue was read back as ResponseValue.
C10_Witness ==
    /\ cstep = "done" /\ cin.type = 2
    /\ ccls.response = Some("ResponseAuth")
    /\ ccls.request = Some("RequestExecCommand")
    /\ ccls.back["ResponseValue"] = Some("ResponseValue")

\* a send_packet or a recv_packet of the exec call in progress returned an error
ExecFailed ==
    /\ InExec /\ pc = "idle"
    /\ \/ \E i \in DOMAIN log : log[i].op = "write" /\ ~log[i].ok
       \/ Reads > Len(got)

\* C12: when a write or a read of an exec call has failed, exec has returned an
\* error made of a kind and a message, with none of the text accumulated so far;
\* and an exec that returned Ok had no failed write or read.
C12_NoPartialSuccess ==
    /\ ExecFailed => /\ result.tag = "Err"
                     /\ DOMAIN result = {"tag", "err"}
                     /\ DOMAIN result.err = {"kind", "msg"}
    /\ (InExec /\ pc = "idle" /\ result.tag = "Ok") => ~ExecFailed

\* a read failed after two fragments had been accumulated
C12_Witness ==
    /\ ExecFailed /\ Reads = 3 /\ Len(got) = 2
    /\ response_str = StrHe \o StrLlo
    /\ result.tag = "Err"

\* the text a compliant peer's script gives for a command: its fragments, joined
ScriptText == Concat([i \in 1..Len(peer.script.frags) |-> [pbody |-> peer.script.frags[i]]])

\* C13: against a compliant deterministic peer, every exec call that returns Ok
\* returns the text of the peer's script for the command, whichever call of the
\* session it is.
C13_SameTextEveryCall ==
    (InExec /\ pc = "idle" /\ result.tag = "Ok") => result.v = ScriptText

\* the second exec call of a session has returned "Hello", as the first did
C13_Witness ==
    /\ InExec /\ pc = "idle" /\ calls = 2 /\ peer.taken = 2
    /\ result = Ok(StrHe \o StrLlo)
    /\ peer_sent >= 7

\* C14: against a compliant peer (finitely many fragments, possibly none, then
\* exactly one packet with the sentinel id) an exec call that waits in a read
\* always has a packet to come, and when the peer's whole reply is one packet
\* with the sentinel id and empty body, exec has returned "" after reading it.
C14_ExecReturns ==
    /\ (InExec /\ pc \in {"exec_recv_first", "exec_loop"})
           => (rx # <<>> \/ peer.due # <<>> \/ peer.taken < calls)
    /\ (InExec /\ peer.taken = calls /\ peer.script.frags = <<>> /\ peer.script.sbody = <<>>
            /\ Len(got) = 1)
           => (pc = "idle" /\ result = Ok(<<>>))

\* C15: new(id, 2, body), new_from_type(id, body, RequestExecCommand) and
\* new_exec(id, body) give equal results, a packet of type 2 for a body of at
\* most 4086 bytes and BodyTooLarge otherwise; new_auth(id, pass) gives a packet
\* with that id, body pass and type code 3 (BodyTooLarge for a longer pass).
C15_FactoriesAgree ==
    cfac # None =>
        /\ cfac.raw = cfac.from_type
        /\ cfac.from_type = cfac.exec
        /\ IF Len(Text(cin.body)) > 4086
           THEN cfac.exec = Err(BodyTooLarge) /\ cfac.auth = Err(BodyTooLarge)
           ELSE /\ cfac.exec.tag = "Ok"
                /\ cfac.exec.v.pid = cin.id /\ cfac.exec.v.ptype = 2
                /\ cfac.exec.v.pbody = Text(cin.body)
                /\ cfac.auth.tag = "Ok"
                /\ cfac.auth.v.pid = cin.id /\ cfac.auth.v.ptype = 3
                /\ cfac.auth.v.pbody = Text(cin.body)

\* the factories were applied to a body of two bytes and gave packets
C15_Witness ==
    /\ cstep = "done" /\ cfac # None
    /\ cin.body = "He" /\ cin.id = 305419896
    /\ cfac.exec.tag = "Ok" /\ cfac.auth.tag = "Ok"

\* the packet does not carry the sentinel id
NotSentinel(p) == p.pid # -1

\* C16: the text an exec call returns is made of the bodies of the packets that
\* do not carry the sentinel id, and of nothing else, wherever the packet with
\* the sentinel id stood and whatever its body; and the only packet with the
\* sentinel id that exec has read is the last one it read.
C16_SentinelBodyDiscarded ==
    (InExec /\ pc = "idle" /\ result.tag = "Ok")
        => /\ result.v = Concat(SelectSeq(got, NotSentinel))
           /\ Sentinels = {Len(got)}

\* the sentinel packet open builds from its safe_command argument
SentinelFor(safe_command) ==
    IF safe_command.tag = "Some"
    THEN [psize |-> Len(Text(safe_command.v)) + 10, pid |-> -1, ptype |-> 2,
          pbody |-> Text(safe_command.v)]
    ELSE [psize |-> 10, pid |-> -1, ptype |-> 0, pbody |-> <<>>]

\* the ids of the packets written: the login packet and the commands carry 0, and
\* in an exec call the second packet written is the sentinel
WrittenIds ==
    \A i \in DOMAIN log :
        log[i].op = "write" =>
            log[i].pid = (IF InExec /\ i = 2 THEN -1 ELSE 0)

\* C18: a session's sentinel packet always has id -1, which is not the id 0 of
\* the login packet and of every command packet; it exists exactly when open has
\* returned a session, open built it from the safe command (type 2) or as an
\* empty value response (type 0), and no step after that, of a successful or of
\* a failed exec, changes it.
C18_SentinelFixed ==
    /\ [](control_packet # None =>
            /\ control_packet.v.pid = -1
            /\ control_packet.v \in {SentinelFor(c) : c \in SafeCommands})
    /\ []WrittenIds
    /\ []((InOpen /\ control_packet # None) => control_packet.v = SentinelFor(args.safe_command))
    /\ []((OpenDone /\ result = Ok("RconClient")) => control_packet # None)
    /\ [][/\ control_packet # None => control_packet' = control_packet
          /\ (control_packet = None /\ control_packet' # None) => (InOpen /\ OpenDone')]_vars

\* a second exec call has failed and the sentinel built from "echo" is still there
C18_Witness ==
    /\ InExec /\ calls = 2 /\ pc = "idle" /\ result.tag = "Err"
    /\ control_packet = Some([psize |-> 14, pid |-> -1, ptype |-> 2, pbody |-> StrEcho])

\* the header of the login packet of the open call in progress: size, id 0, type 3
AuthHeader == write_i32(Len(Text(args.pass)) + 10) \o write_i32(0) \o write_i32(3)

\* the one send of open is that of the AuthRequest with the login id and the password
AuthSent ==
    /\ Len(log) >= 1 /\ log[1].op = "write" /\ log[1].pid = 0
    /\ log[1].ok =>
          /\ Len(log[1].bytes) >= 12
          /\ SubSeq(log[1].bytes, 1, 12) = AuthHeader
          /\ Len(log[1].bytes) = Len(Text(args.pass)) + 14
                => log[1].bytes = AuthHeader \o Text(args.pass) \o <<0, 0>>

\* open failed before it had a connection
FailedBeforeConnect == pc = "failed" /\ result \in {Err(ErrAddress), Err(ErrAuthPacket), Err(ErrConnect)}

\* C19 as stated: when open has returned, with a session or with an error,
\* exactly one packet has been written, the AuthRequest.
C19_ExactlyOnePacketWritten ==
    OpenDone => (Writes = 1 /\ AuthSent /\ log[1].ok)

\* C19: during open at most one packet is sent, and none when open fails before
\* the connection is made (address, password over the cap, connection failure);
\* otherwise exactly one, the AuthRequest (type 3) with id 0 and the password as
\* body, sent before the first read and with success if anything is read or a
\* session is returned; it is never sent again and the sentinel is never written.
C19_OneAuthRequestSent ==
    InOpen =>
        /\ Writes <= 1
        /\ \A i \in DOMAIN log : log[i].op = "write" => i = 1
        /\ (Writes = 0) <=> FailedBeforeConnect
        /\ (Writes = 1) => AuthSent
        /\ (Reads >= 1 \/ result = Ok("RconClient")) => (Writes = 1 /\ log[1].ok)

\* a session was returned after two reads, and the AuthRequest was the one write
C19_Witness ==
    /\ OpenDone /\ result = Ok("RconClient") /\ Reads = 2 /\ Writes = 1
    /\ log[1].bytes = AuthHeader \o Text("secret") \o <<0, 0>>

\* the exec call in progress was given a command of more than 4086 bytes
OversizeExec == InExec /\ Len(Text(args.command)) > 4086

\* C20: an exec call with a command of more than 4086 bytes has returned the
\* InvalidData error with nothing written and nothing read, and the step that
\* made the call left the stream, the peer and the sentinel as they were and the
\* session ready for the next call.
C20_OversizeExecNoEffect ==
    /\ [](OversizeExec =>
            /\ pc = "idle" /\ log = <<>> /\ got = <<>>
            /\ result = Err([kind |-> "InvalidData", msg |-> "Cannot create RawPacket"]))
    /\ [][(OversizeExec' /\ calls' # calls) =>
            /\ pc = "idle" /\ pc' = "idle"
            /\ rx' = rx /\ rx_closed' = rx_closed /\ peer_sent' = peer_sent
            /\ control_packet' = control_packet]_vars

\* the second exec call of a session, with an oversize command, has failed and
\* the session still has its sentinel
C20_Witness ==
    /\ OversizeExec /\ calls = 2 /\ result.tag = "Err"
    /\ log = <<>> /\ control_packet # None

\* the k-th packet given to the stream's writer
StreamPacket(k) == new(sin.pkts[k].id, sin.pkts[k].type, Text(sin.pkts[k].body)).v

RECURSIVE Pending(_, _)
\* the wire bytes of the packets i..j given to the stream's writer, back to back
Pending(i, j) == IF i > j THEN <<>> ELSE WireImage(StreamPacket(i)) \o Pending(i + 1, j)

\* C21: every successful deserialize takes exactly size + 4 bytes from the
\* stream (12 of header, size - 10 of body, 2 terminators); and for packets
\* serialized back to back by a writer that takes every byte, the deserialize
\* calls return those packets in their order, what is left on the stream is
\* exactly the packets written and not yet read, and a packet that was written
\* can always be read.
C21_StreamOfPackets ==
    /\ [](sin.limit = Unlimited =>
            /\ Len(sout) <= ssent
            /\ \A k \in DOMAIN sout : sout[k] = Ok(StreamPacket(k))
            /\ swire = Pending(Len(sout) + 1, ssent)
            /\ Len(sout) < ssent => deserialize(swire, FALSE).tag = "Ok")
    /\ [][(sout' # sout /\ sout'[Len(sout')].tag = "Ok") =>
            LET p == sout'[Len(sout')].v
            IN  /\ Len(swire) - Len(swire') = p.psize + 4
                /\ p.psize + 4 = 12 + Len(p.pbody) + 2
                /\ swire' = SubSeq(swire, p.psize + 5, Len(swire))]_vars

\* three packets, serialized back to back, have all been read back and the
\* stream is empty
C21_Witness ==
    /\ sin.limit = Unlimited /\ Len(sin.pkts) = 3 /\ ssent = 3 /\ Len(sout) = 3
    /\ swire = <<>>
    /\ sout[1] = Ok([psize |-> 12, pid |-> 0, ptype |-> 2, pbody |-> StrHe])
    /\ sout[2] = Ok([psize |-> 10, pid |-> -1, ptype |-> 0, pbody |-> <<>>])
    /\ sout[3].tag = "Ok" /\ sout[3].v.pbody = <<195, 169>>

\* a packet as id, type and body
Bare(p) == [pid |-> p.pid, ptype |-> p.ptype, pbody |-> p.pbody]

\* the packets read in the call in progress
GotPackets == [i \in DOMAIN got |-> Bare(got[i])]

RECURSIVE OnStream(_)
\* the packets that the bytes buf hold, in order
OnStream(buf) ==
    LET d == deserialize(buf, FALSE)
    IN  IF d.tag = "Ok" THEN <<Bare(d.v)>> \o OnStream(d.rest) ELSE <<>>

\* C22: against a compliant peer, an exec call that returns Ok has read exactly
\* the packets the peer owed for this call's command and sentinel, in their
\* order, and nothing the peer has sent or owes is left unread; when an exec
\* call starts, nothing of an earlier call is left on the stream or owed, so no
\* fragment of command k can reach the result of command k+1; and all through a
\* call the packets read, those on the stream and those still owed make up the
\* answer to this call.
C22_ExecReadsItsOwnAnswer ==
    /\ (InExec /\ pc = "idle" /\ result.tag = "Ok")
          => /\ rx = <<>> /\ peer.due = <<>> /\ peer.taken = calls
             /\ GotPackets = Answer(peer.script, 0, -1)
             /\ result.v = ScriptText
    /\ (InExec /\ pc = "exec_recv_first" /\ peer.taken < calls)
          => (rx = <<>> /\ peer.due = <<>> /\ got = <<>>)
    /\ (InExec /\ peer.taken = calls)
          => GotPackets \o OnStream(rx) \o peer.due = Answer(peer.script, 0, -1)

\* the second exec call of a session has returned after reading its two
\* fragments and the sentinel's reply, which had a body
C22_Witness ==
    /\ InExec /\ pc = "idle" /\ calls = 2 /\ result = Ok(StrHe \o StrLlo)
    /\ Len(got) = 3 /\ got[3].pid = -1 /\ got[3].pbody = StrLlo
    /\ rx = <<>> /\ peer.due = <<>>

\* the size field of the frame the reader held
Declared == read_i32(SubSeq(cframe, 1, 4))

\* deserialize has been called on a reader that held a whole header
Deserialized == cback # None /\ Len(cframe) >= HeaderLen

\* C11: for every declared size outside 10..4096 deserialize returns an error,
\* and it reads no more than 4086 bytes after the header.
C11_SizeFieldBounded ==
    (Deserialized /\ Declared \notin 10..4096)
        => /\ cback.tag = "Err"
           /\ Len(cframe) - Len(cwire) - HeaderLen <= 4086

\* the stream ended before the header, the body and the two terminators were read
CutShort == Len(cframe) < HeaderLen \/ Len(cframe) < Declared + 4

\* C17: for a declared size of 10 or more, or a stream that ends inside the
\* header, a stream that ends before the header, the size - 10 body bytes and the
\* two terminators are read makes deserialize return an I/O error; and a packet
\* that deserialize returns has exactly size - 10 body bytes.
C17_CutStreamIsIoError ==
    (cback # None /\ cstep # "deserialize")
        => /\ (CutShort /\ (Len(cframe) < HeaderLen \/ Declared >= 10))
                => /\ cback.tag = "Err"
                   /\ cback.err.kind \in {"UnexpectedEof", "Other"}
           /\ (cback.tag = "Ok") => Len(cback.v.pbody) = Declared - 10

\* a stream cut inside the body, and one cut before the terminators, gave an error
C17_Witness ==
    /\ cback # None /\ cback.tag = "Err" /\ cback.err.kind = "UnexpectedEof"
    /\ cframe = Frame(12, 0, 0, StrHe, <<>>)
    /\ cwire = <<>>

====
